---- MODULE Spec2Model ----
(***************************************************************************)
(* Streaming relay of copilot-studio: POST /api/copilot/stream.            *)
(* One relay invocation: session check, provider resolution, command       *)
(* validation, then the attempt loop of streamGemini / streamGitHubModels  *)
(* writing start / data / end events on one response stream.               *)
(***************************************************************************)
EXTENDS Integers, Sequences, FiniteSets, TLC

\* ------------------------------------------------------------------ bounds
\* fragments a live provider stream delivers in total during one request
MaxFragments == 2
\* longest complete (non-streamed) answer of the provider, in characters
MaxContentLen == 41
\* latest clock value / expiry time
MaxTime == 1
\* requests one user sends to the execute route, and those of any other user
MaxRequests == 22
MaxOtherRequests == 1
\* times the clock of the execute route advances
MaxTicks == 2
\* tokens in the input text of a request whose prompt is assembled
MaxInputTokens == 2
\* chunks the token stream of one of two concurrent invocations delivers
MaxPairChunks == 1
\* calls of addActivity
MaxActivityAdds == 52
\* executions and diffs the command store is given, and lines of output
MaxStoreIds == 3
MaxOutputLines == 2

\* ------------------------------------------------------- program constants
maxRetries == 3
initialDelayMs == 2000
backoffMultiplier == 2
chunkSize == 20
\* SESSION_CONFIG.rateLimitPerMinute, and the window of 60 * 1000 ms
rateLimitPerMinute == 20
rateWindowMs == 60000
\* sanitizeInput: .slice(0, 5000)
maxInputLength == 5000
\* addActivity: .slice(0, 50)
activityLimit == 50

\* a registry that also knows the command 'frobnicate'
COPILOT_COMMANDS_Extra ==
    {"explain", "generate", "fix", "refactor", "test", "docs", "frobnicate"}

\* COPILOT_COMMANDS keys
COPILOT_COMMANDS == {"explain", "generate", "fix", "refactor", "test", "docs"}
\* property names every object literal inherits from Object.prototype
ObjectPrototypeKeys == {"toString", "constructor", "valueOf", "__proto__"}
\* COPILOT_COMMANDS[command] is truthy: own entries and inherited properties
HasCommandEntry(cmd) == cmd \in COPILOT_COMMANDS \/ cmd \in ObjectPrototypeKeys

\* ------------------------------------------------------------------ inputs
\* command ids a request may carry ("" stands for a missing command)
RequestCommands == {"", "frobnicate", "toString", "explain", "fix"}
\* provider override of a request ("" stands for an absent override)
RequestProviders == {"", "gemini", "github", "other"}
\* values of GEMINI_API_KEY / GITHUB_TOKEN ("" is unset)
GeminiKeys == {"", "gemini-key"}
GitHubKeys == {"", "github-token"}
Times == 0..MaxTime
\* the session cookie as the request carries it
Cookies ==
    {[kind |-> "absent", hasExpiresAt |-> FALSE, expiresAt |-> 0],
     [kind |-> "unparsable", hasExpiresAt |-> FALSE, expiresAt |-> 0],
     [kind |-> "json", hasExpiresAt |-> FALSE, expiresAt |-> 0]}
    \cup {[kind |-> "json", hasExpiresAt |-> TRUE, expiresAt |-> t] : t \in Times}
\* text is a sequence of character codes; <<>> is the empty string
Fragments == {<< >>, <<1>>, <<2, 3>>}
ContentOfLen(n) == [i \in 1..n |-> 1 + (i % 7)]
Contents == {ContentOfLen(n) : n \in 0..MaxContentLen}
\* err.status of an exception thrown by the Gemini SDK (0: no status field)
GeminiStatuses == {0, 401, 403, 429, 500}
\* response.status of an unexpected GitHub Models response (a string)
GitHubStatuses == {"401", "403", "429", "500"}
\* err.message / response.body.error.message ("" is absent)
Messages == {"", "provider message"}
\* body.input as a sequence of tokens (<< >>: absent or empty)
Inputs == {<< >>, <<"x = 1">>}
\* body.context; an absent field reads as empty
NoContext == [fileName |-> "", language |-> "", fileContent |-> << >>, error |-> << >>]
Contexts ==
    {NoContext,
     [fileName |-> "a.ts", language |-> "", fileContent |-> <<"let a">>,
      error |-> <<"TypeError">>]}
\* the request body as parsed by request.json()
Bodies ==
    [bodyOk : BOOLEAN, command : RequestCommands, input : Inputs,
     context : Contexts, provider : RequestProviders]
NoBody ==
    [bodyOk |-> FALSE, command |-> "", input |-> << >>, context |-> NoContext,
     provider |-> ""]
NoPrompt == [system |-> << >>, user |-> << >>]
\* session.user.id of the callers of the execute route
Users == {"u1", "u2"}
\* milliseconds Date.now() advances between two requests
TickSteps == {1, 60000}
\* bodies sent to the execute route: the limiter runs before the body is
\* read, so one well-formed body stands for them all
ExecuteBodies ==
    {[command |-> "explain", input |-> <<"x = 1">>]}
\* sessionCommands.get(userId) === undefined
NoEntry == [present |-> FALSE, count |-> 0, resetAt |-> 0]
NoRateResult == [allowed |-> FALSE, remaining |-> 0, resetIn |-> 0]
\* what a text typed by the user is made of: plain characters, angle
\* brackets, the placeholder texts of the templates, the replacement pattern
\* $& of String.prototype.replace, and the content of the open file
RenderTokens == {"x", "<", ">", "{code}", "{prompt}", "{error}", "$&", "let a"}
RECURSIVE TextsUpTo(_)
TextsUpTo(n) ==
    IF n = 0 THEN {<< >>}
    ELSE LET shorter == TextsUpTo(n - 1)
         IN shorter \cup {Append(t, c) : t \in shorter, c \in RenderTokens}
\* body.input of a request whose prompt is assembled
RenderInputs == TextsUpTo(MaxInputTokens)
\* body.context of such a request
RenderContexts ==
    [fileName : {"", "a.ts"}, language : {""}, fileContent : {<< >>, <<"let a">>},
     error : {<< >>, <<"TypeError">>, <<"<">>}]
\* no prompt has been assembled yet
NoRenderRequest == [command |-> "", input |-> << >>, context |-> NoContext]
NoRenderPrompt ==
    [built |-> FALSE, input |-> << >>, error |-> << >>, rendered |-> << >>,
     full |-> << >>]
\* the two relay invocations that run at the same time
Invocations == {1, 2}
\* an invocation whose request has not arrived
NoInvocation ==
    [pc |-> "idle", branch |-> "none", command |-> "", events |-> << >>,
     calls |-> 0, waits |-> << >>, outcomes |-> << >>]

VARIABLES
    geminiApiKey,   \* AI_PROVIDERS.gemini.apiKey
    githubApiKey,   \* AI_PROVIDERS.github.apiKey
    pc,             \* position of the handler
    httpStatus,     \* status of the HTTP response (0: none yet)
    branch,         \* provider branch taken: "none", "gemini", "github"
    command,        \* command of the request
    attempt,        \* let attempt
    events,         \* events enqueued on the stream, in order
    calls,          \* outbound provider calls made
    waits,          \* backoff sleeps, in order
    outcomes,       \* what the provider did on each finished attempt
    received,       \* fragments received from the provider, all attempts
    authCase,       \* how the session check went
    accepted,       \* command, input and context a stream was opened for
    prompt,         \* systemPrompt and prompt handed to the stream function
    sent,           \* parameters of each provider call, in order
    rejected,       \* the body an error response was returned for
    errorBody,      \* error text of an error response
    cancelled,      \* the consumer has cancelled the response stream
    sessionCommands, \* execute route: Map userId -> {count, resetAt}
    clock,          \* execute route: Date.now()
    ticks,          \* execute route: times the clock has advanced
    admittedAt,     \* execute route: per user, times of the admitted requests
    rateResult,     \* execute route: what the last checkRateLimit returned
    executeStatus,  \* execute route: status of the last response (0: none)
    rateUser,       \* execute route: userId of the last checkRateLimit call
    renderRoute,    \* prompt assembly: route that built the prompt ("none": not yet)
    renderRequest,  \* prompt assembly: command, input and context of the body
    renderPrompt,   \* prompt assembly: the prompt built from them
    invocations,    \* two relay invocations: per invocation, its own stream
    attempts,       \* two relay invocations: the cells holding let attempt
    activities,     \* activity store: activities, newest first
    added,          \* activity store: items added since the last clear, newest first
    activityIds,    \* activity store: ids handed out by generateId
    executions,     \* command store: executions, newest first
    currentExecution, \* command store: id of currentExecution (0: null)
    isExecuting,    \* command store: isExecuting
    outputLines,    \* command store: outputLines
    diffChanges,    \* command store: diffChanges, newest first
    idCounter       \* command store: ids handed out by generateId

\* state of the execute route
rateVars == <<sessionCommands, clock, ticks, admittedAt, rateResult, executeStatus,
              rateUser>>
\* state of prompt assembly
renderVars == <<renderRoute, renderRequest, renderPrompt>>
\* state of two concurrent relay invocations
pairVars == <<invocations, attempts>>
\* state of useActivityStore
activityVars == <<activities, added, activityIds>>
\* state of useCommandStore
commandVars == <<executions, currentExecution, isExecuting, outputLines,
                 diffChanges, idCounter>>
\* state of the stream route
relayVars == <<geminiApiKey, githubApiKey, pc, httpStatus, branch, command, attempt,
               events, calls, waits, outcomes, received, authCase, accepted, prompt,
               sent, rejected, errorBody, cancelled>>
vars == <<relayVars, rateVars, renderVars, pairVars, activityVars, commandVars>>
\* what each part of the program leaves alone
beyondRelay == <<rateVars, renderVars, pairVars, activityVars, commandVars>>
beyondRate == <<relayVars, renderVars, pairVars, activityVars, commandVars>>
beyondRender == <<relayVars, rateVars, pairVars, activityVars, commandVars>>
beyondPair == <<relayVars, rateVars, renderVars, activityVars, commandVars>>
beyondActivity == <<relayVars, rateVars, renderVars, pairVars, commandVars>>
beyondCommand == <<relayVars, rateVars, renderVars, pairVars, activityVars>>
\* what POST fixes for the lifetime of a stream
requestVars == <<accepted, prompt, rejected, errorBody>>

\* ----------------------------------------------------------------- helpers
RECURSIVE Pow(_, _)
Pow(b, e) == IF e = 0 THEN 1 ELSE b * Pow(b, e - 1)

Min(a, b) == IF a < b THEN a ELSE b

StartEvent(cmd) ==
    [type |-> "start", command |-> cmd, content |-> << >>, success |-> FALSE, error |-> ""]
DataEvent(text) ==
    [type |-> "data", command |-> "", content |-> text, success |-> FALSE, error |-> ""]
EndEvent(ok, err) ==
    [type |-> "end", command |-> "", content |-> << >>, success |-> ok, error |-> err]

\* x || 'typescript'
OrElseText(x) == IF x = "" THEN "typescript" ELSE x

\* getSession without the expiry test
getSession_NoExpiry(cookie, now) ==
    IF cookie.kind = "absent" THEN FALSE
    ELSE IF cookie.kind = "unparsable" THEN FALSE
    ELSE TRUE

\* getSession: null (FALSE) when the cookie is absent, does not parse, or is
\* expired; Date.now() > undefined is false, so a missing expiresAt passes
getSession(cookie, now) ==
    IF cookie.kind = "absent" THEN FALSE
    ELSE IF cookie.kind = "unparsable" THEN FALSE
    ELSE IF cookie.hasExpiresAt /\ now > cookie.expiresAt THEN FALSE
    ELSE TRUE

\* getAIConfig that falls back to a placeholder key
getAIConfig_PlaceholderKey(provider) ==
    IF geminiApiKey # ""
        THEN [apiKey |-> geminiApiKey, model |-> "gemini-3-flash-preview",
              provider |-> "gemini"]
    ELSE IF githubApiKey # ""
        THEN [apiKey |-> githubApiKey, model |-> "mistral-ai/Codestral-2501",
              provider |-> "github"]
    ELSE [apiKey |-> "missing", model |-> "gemini-3-flash-preview",
          provider |-> "gemini"]

\* getAIConfig that ignores the requested provider
getAIConfig_IgnoreRequested(provider) ==
    IF geminiApiKey # ""
        THEN [apiKey |-> geminiApiKey, model |-> "gemini-3-flash-preview",
              provider |-> "gemini"]
    ELSE IF githubApiKey # ""
        THEN [apiKey |-> githubApiKey, model |-> "mistral-ai/Codestral-2501",
              provider |-> "github"]
    ELSE [apiKey |-> "", model |-> "", provider |-> "none"]

\* getAIConfig(provider); provider "none" stands for null
getAIConfig(provider) ==
    IF provider = "gemini" /\ geminiApiKey # ""
        THEN [apiKey |-> geminiApiKey, model |-> "gemini-3-flash-preview",
              provider |-> "gemini"]
    ELSE IF provider = "github" /\ githubApiKey # ""
        THEN [apiKey |-> githubApiKey, model |-> "mistral-ai/Codestral-2501",
              provider |-> "github"]
    ELSE IF geminiApiKey # ""
        THEN [apiKey |-> geminiApiKey, model |-> "gemini-3-flash-preview",
              provider |-> "gemini"]
    ELSE IF githubApiKey # ""
        THEN [apiKey |-> githubApiKey, model |-> "mistral-ai/Codestral-2501",
              provider |-> "github"]
    ELSE [apiKey |-> "", model |-> "", provider |-> "none"]

\* COPILOT_COMMANDS[command].template, as tokens
Template(cmd) ==
    CASE cmd = "explain" -> <<"Explain the following code:\n\n", "{code}">>
      [] cmd = "generate" -> <<"Generate code for: ", "{prompt}">>
      [] cmd = "fix" ->
            <<"Fix the following code:\n\n", "{code}", "\n\nError: ", "{error}">>
      [] cmd = "refactor" ->
            <<"Refactor the following code to be more efficient:\n\n", "{code}">>
      [] cmd = "test" -> <<"Generate unit tests for:\n\n", "{code}">>
      [] OTHER -> <<"Generate documentation for:\n\n", "{code}">>

\* a replacement string taken literally, patterns not expanded
ExpandReplacement_Literal(by, matched) == by

\* the replacement string of String.prototype.replace: $& stands for the
\* matched text and $$ for a dollar sign
ExpandReplacement(by, matched) ==
    [i \in 1..Len(by) |->
        IF by[i] = "$&" THEN matched
        ELSE IF by[i] = "$$" THEN "$"
        ELSE by[i]]

\* String.prototype.replace(placeholder, by): the first occurrence only
ReplaceFirst(text, placeholder, by) ==
    IF \E i \in 1..Len(text) : text[i] = placeholder
    THEN LET i == CHOOSE k \in 1..Len(text) :
                    /\ text[k] = placeholder
                    /\ \A j \in 1..(k - 1) : text[j] # placeholder
         IN SubSeq(text, 1, i - 1) \o ExpandReplacement(by, placeholder)
                \o SubSeq(text, i + 1, Len(text))
    ELSE text

\* a containment test that never finds the part
Includes_Never(text, part) == FALSE

\* String.prototype.includes
Includes(text, part) ==
    \E i \in 0..(Len(text) - Len(part)) : SubSeq(text, i + 1, i + Len(part)) = part

\* context?.language || 'typescript'
LanguageOf(context) == OrElseText(context.language)

\* commandConfig.template.replace('{code}', ..).replace('{prompt}', ..)
\*     .replace('{error}', ..)
RenderTemplate(cmd, input, error) ==
    ReplaceFirst(
        ReplaceFirst(ReplaceFirst(Template(cmd), "{code}", input),
                     "{prompt}", input),
        "{error}", error)

\* the file block appended to the prompt
\* ([fence] stands for the three backquotes of a code fence)
FileBlock(context) ==
    <<"\n\nFile: ", context.fileName, "\n[fence]", LanguageOf(context), "\n">>
        \o context.fileContent \o <<"\n[fence]">>

\* the prompt built from the command template and the file context
BuildPrompt(cmd, input, context) ==
    LET rendered == RenderTemplate(cmd, input, context.error)
    IN IF context.fileContent # << >> /\ ~Includes(rendered, context.fileContent)
       THEN rendered \o FileBlock(context)
       ELSE rendered

\* a sanitizer that removes nothing
sanitizeInput_Identity(input) == input

\* sanitizeInput: .replace(/[<>]/g, '').slice(0, 5000)
sanitizeInput(input) ==
    LET kept == SelectSeq(input, LAMBDA c : c \notin {"<", ">"})
    IN SubSeq(kept, 1, Min(Len(kept), maxInputLength))

\* first sentence of prompts[command] in buildSystemPrompt
SystemRole(cmd) ==
    CASE cmd = "explain" -> "You are an expert code explainer. "
      [] cmd = "generate" -> "You are an expert code generator. "
      [] cmd = "fix" -> "You are an expert debugging assistant. "
      [] cmd = "refactor" -> "You are an expert refactoring assistant. "
      [] cmd = "test" -> "You are an expert test writer. "
      [] cmd = "docs" -> "You are an expert documentation writer. "
      [] OTHER -> "You are a helpful coding assistant. "

\* the instructions after baseContext in prompts[command]
SystemTask(cmd) ==
    CASE cmd = "explain" -> " Provide a clear, structured markdown explanation."
      [] cmd = "generate" -> " Generate clean, production-ready code."
      [] cmd = "fix" -> " Find and fix actual bugs in the provided code."
      [] cmd = "refactor" -> " Refactor the provided code."
      [] cmd = "test" -> " Generate comprehensive unit tests using vitest."
      [] cmd = "docs" -> " Add thorough JSDoc/TSDoc documentation."
      [] OTHER -> ""

\* buildSystemPrompt(command, context)
buildSystemPrompt(cmd, context) ==
    LET baseContext ==
            IF context.fileName # ""
            THEN <<"The user is working on \"", context.fileName, "\" (",
                   LanguageOf(context), ").">>
            ELSE <<"The user is working with ", LanguageOf(context), " code.">>
    IN <<SystemRole(cmd)>> \o baseContext \o <<SystemTask(cmd)>>

\* temperatures in tenths: AI_PROVIDERS.gemini.temperature is 0.7
geminiTemperature == 7
githubTemperature == 4
fixTemperature == 2

\* temperature option that forgets the 'fix' pin
GeminiTemperature_NoPin(cmd) == geminiTemperature

\* temperature: command === 'fix' ? 0.2 : geminiConfig.temperature
GeminiTemperature(cmd) == IF cmd = "fix" THEN fixTemperature ELSE geminiTemperature
\* temperature: command === 'fix' ? 0.2 : 0.4
GitHubTemperature(cmd) == IF cmd = "fix" THEN fixTemperature ELSE githubTemperature

\* call parameters that carry the attempt number in the prompt
CallParams_AttemptTag(br, cmd, p) ==
    IF br = "gemini"
    THEN [temperature |-> IF cmd = "fix" THEN fixTemperature ELSE geminiTemperature,
          contents |-> p.system \o <<"\n\n">> \o p.user \o <<"retry", attempt>>,
          messages |-> << >>]
    ELSE [temperature |-> IF cmd = "fix" THEN fixTemperature ELSE githubTemperature,
          contents |-> << >>,
          messages |-> <<p.system, p.user \o <<"retry", attempt>>>>]

\* what one provider call is given: generateContentStream gets the joined
\* prompt, chat/completions gets a system and a user message
CallParams(br, cmd, p) ==
    IF br = "gemini"
    THEN [temperature |-> GeminiTemperature(cmd),
          contents |-> p.system \o <<"\n\n">> \o p.user,
          messages |-> << >>]
    ELSE [temperature |-> GitHubTemperature(cmd),
          contents |-> << >>,
          messages |-> <<p.system, p.user>>]

\* a linear instead of an exponential backoff
BackoffDelay_Linear(att) == initialDelayMs * (att + 1)

\* AI_RETRY_CONFIG.initialDelayMs * Math.pow(backoffMultiplier, attempt)
BackoffDelay(att) == initialDelayMs * Pow(backoffMultiplier, att)

\* retry tests with an off-by-one cap, one retry too few, or any status
GeminiShouldRetry_Inclusive(status, att) == status = 429 /\ att <= maxRetries
GeminiShouldRetry_AnyStatus(status, att) == status # 0 /\ att < maxRetries
GitHubShouldRetry_OneFewer(status, att) == status = "429" /\ att < maxRetries - 1
GitHubCatchShouldRetry_Inclusive(att) == att <= maxRetries

\* retry conditions of the three catch / error paths
GeminiShouldRetry(status, att) == status = 429 /\ att < maxRetries
GitHubShouldRetry(status, att) == status = "429" /\ att < maxRetries
GitHubCatchShouldRetry(att) == att < maxRetries

\* a loop test that stops one attempt early
LoopCondition_Strict(att) == att < maxRetries

\* while (attempt <= maxRetries)
LoopCondition(att) == att <= maxRetries

\* the chunk loop: content.slice(i, i + chunkSize) for i = 0, chunkSize, ...
RECURSIVE ChunksFrom(_, _)
ChunksFrom(content, i) ==
    IF i < Len(content)
    THEN <<SubSeq(content, i + 1, Min(i + chunkSize, Len(content)))>>
         \o ChunksFrom(content, i + chunkSize)
    ELSE << >>
\* a chunk loop that stops before a final partial chunk
RECURSIVE ChunksFrom_DropPartial(_, _)
ChunksFrom_DropPartial(content, i) ==
    IF i + chunkSize <= Len(content)
    THEN <<SubSeq(content, i + 1, i + chunkSize)>>
         \o ChunksFrom_DropPartial(content, i + chunkSize)
    ELSE << >>
Chunks_DropPartial(content) == ChunksFrom_DropPartial(content, 0)
\* a chunk loop whose slice ends one character late
RECURSIVE ChunksFrom_LongSlice(_, _)
ChunksFrom_LongSlice(content, i) ==
    IF i < Len(content)
    THEN <<SubSeq(content, i + 1, Min(i + chunkSize + 1, Len(content)))>>
         \o ChunksFrom_LongSlice(content, i + chunkSize)
    ELSE << >>
Chunks_LongSlice(content) == ChunksFrom_LongSlice(content, 0)

Chunks(content) == ChunksFrom(content, 0)

RECURSIVE DataEvents(_)
DataEvents(chunks) ==
    IF chunks = << >> THEN << >>
    ELSE <<DataEvent(Head(chunks))>> \o DataEvents(Tail(chunks))

\* `API error (${status})`
ApiErrorText(status) ==
    CASE status = "401" -> "API error (401)"
      [] status = "403" -> "API error (403)"
      [] status = "429" -> "API error (429)"
      [] OTHER -> "API error (500)"

\* x || fallback on strings
OrElse(x, fallback) == IF x = "" THEN fallback ELSE x

\* what the provider did, named for the history
GeminiKind(status) ==
    IF status = 429 THEN "rateLimit"
    ELSE IF status \in {401, 403} THEN "auth"
    ELSE IF status = 0 THEN "exception"
    ELSE "error"
GitHubKind(status) ==
    IF status = "429" THEN "rateLimit"
    ELSE IF status \in {"401", "403"} THEN "auth"
    ELSE "error"
Outcome(phase, kind) == [phase |-> phase, kind |-> kind]
\* a backoff sleep: its delay and how many events were on the stream before it
Wait(delayMs, after) == [delayMs |-> delayMs, after |-> after]

\* -------------------------------------------------------------------- Init
Init ==
    /\ geminiApiKey \in GeminiKeys
    /\ githubApiKey \in GitHubKeys
    /\ pc = "idle"
    /\ httpStatus = 0
    /\ branch = "none"
    /\ command = ""
    /\ attempt = 0
    /\ events = << >>
    /\ calls = 0
    /\ waits = << >>
    /\ outcomes = << >>
    /\ received = << >>
    /\ authCase = "none"
    /\ accepted = NoBody
    /\ prompt = NoPrompt
    /\ sent = << >>
    /\ rejected = NoBody
    /\ errorBody = ""
    /\ cancelled = FALSE
    /\ sessionCommands = [u \in Users |-> NoEntry]
    /\ clock = 0
    /\ ticks = 0
    /\ admittedAt = [u \in Users |-> << >>]
    /\ rateResult = NoRateResult
    /\ executeStatus = 0
    /\ rateUser = ""
    /\ renderRoute = "none"
    /\ renderRequest = NoRenderRequest
    /\ renderPrompt = NoRenderPrompt
    /\ invocations = [r \in Invocations |-> NoInvocation]
    /\ attempts = [r \in Invocations |-> 0]
    /\ activities = << >>
    /\ added = << >>
    /\ activityIds = 0
    /\ executions = << >>
    /\ currentExecution = 0
    /\ isExecuting = FALSE
    /\ outputLines = << >>
    /\ diffChanges = << >>
    /\ idCounter = 0

\* ----------------------------------------------------------------- actions
Reject(status, why, body, error) ==
    /\ pc' = "responded"
    /\ httpStatus' = status
    /\ authCase' = why
    /\ rejected' = body
    /\ errorBody' = error
    /\ UNCHANGED <<geminiApiKey, githubApiKey, branch, command, attempt, events,
                   calls, waits, outcomes, received, accepted, prompt, sent,
                   cancelled, beyondRelay>>

\* how the session check of a request goes, for the record
AuthCaseOf(cookie, now) ==
    IF cookie.kind = "absent" THEN "noCookie"
    ELSE IF cookie.kind = "unparsable" THEN "unparsable"
    ELSE IF cookie.hasExpiresAt /\ now > cookie.expiresAt THEN "expired"
    ELSE IF ~cookie.hasExpiresAt THEN "noExpiresAt"
    ELSE "valid"

\* POST handler up to the first await inside the stream's start()
POST(cookie, now, body) ==
    /\ pc = "idle"
    /\ IF ~getSession(cookie, now)
       THEN Reject(401, AuthCaseOf(cookie, now), body, "Not authenticated")
       ELSE IF ~body.bodyOk
       THEN Reject(500, AuthCaseOf(cookie, now), body, "Stream failed")
       ELSE IF getAIConfig(body.provider).apiKey = ""
       THEN Reject(500, AuthCaseOf(cookie, now), body, "No AI provider configured")
       ELSE IF body.command = "" \/ ~HasCommandEntry(body.command)
       THEN Reject(400, AuthCaseOf(cookie, now), body, "Invalid command")
       ELSE IF body.command \notin COPILOT_COMMANDS
       THEN \* commandConfig.template is undefined: .replace throws, caught below
            Reject(500, AuthCaseOf(cookie, now), body, "Stream failed")
       ELSE LET p == [system |-> buildSystemPrompt(body.command, body.context),
                      user |-> BuildPrompt(body.command, body.input, body.context)]
                br == getAIConfig(body.provider).provider
            IN /\ branch' = br
               /\ command' = body.command
               /\ accepted' = [body EXCEPT !.provider = ""]
               /\ prompt' = p
               /\ httpStatus' = 200
               /\ authCase' = AuthCaseOf(cookie, now)
               /\ events' = <<StartEvent(body.command)>>
               /\ calls' = 1
               /\ sent' = <<CallParams(br, body.command, p)>>
               /\ pc' = "awaitCall"
               /\ UNCHANGED <<geminiApiKey, githubApiKey, attempt, waits,
                              outcomes, received, rejected, errorBody, cancelled,
                              beyondRelay>>

\* what no step of the attempt loop changes
fixedVars == <<requestVars, beyondRelay, geminiApiKey, githubApiKey, httpStatus,
               branch, command, authCase>>

\* catch block of streamGemini; on a cancelled stream controller.enqueue
\* throws, and thrown from inside the catch block it ends start() with no end
GeminiCatch(status, message, phase) ==
    /\ outcomes' = Append(outcomes, Outcome(phase, GeminiKind(status)))
    /\ IF GeminiShouldRetry(status, attempt)
       THEN /\ waits' = Append(waits, Wait(BackoffDelay(attempt), Len(events)))
            /\ pc' = "backoff"
            /\ UNCHANGED events
       ELSE IF cancelled
       THEN /\ pc' = "errored"
            /\ UNCHANGED <<events, waits>>
       ELSE /\ events' = Append(events,
                    EndEvent(FALSE, OrElse(message, "Gemini stream failed")))
            /\ pc' = "closed"
            /\ UNCHANGED waits
    /\ UNCHANGED <<fixedVars, cancelled, attempt, calls, sent>>

\* ai.models.generateContentStream resolves with a response stream
GeminiCallResolves ==
    /\ pc = "awaitCall" /\ branch = "gemini"
    /\ pc' = "streaming"
    /\ UNCHANGED <<fixedVars, cancelled, attempt, events, calls, waits, outcomes,
                   received, sent>>

\* ai.models.generateContentStream rejects
GeminiCallThrows(status, message) ==
    /\ pc = "awaitCall" /\ branch = "gemini"
    /\ UNCHANGED received
    /\ GeminiCatch(status, message, "call")

\* a forwarding test that lets an empty fragment through
HasText_Always(text) == TRUE

\* if (text): an empty chunk.text is falsy
HasText(text) == text # << >>

\* for await (const chunk of response): one chunk arrives
GeminiChunk(text) ==
    /\ pc = "streaming"
    /\ Len(received) < MaxFragments
    /\ received' = Append(received, text)
    /\ IF cancelled /\ HasText(text)
       THEN GeminiCatch(0, "Invalid state", "enqueue")
       ELSE /\ events' = IF HasText(text) THEN Append(events, DataEvent(text))
                         ELSE events
            /\ UNCHANGED <<fixedVars, cancelled, pc, attempt, calls, waits,
                           outcomes, sent>>

\* the success path without its return: the handler keeps iterating
GeminiStreamEnds_NoReturn ==
    /\ pc = "streaming"
    /\ events' = Append(events, EndEvent(TRUE, ""))
    /\ outcomes' = Append(outcomes, Outcome("delivery", "success"))
    /\ pc' = "streaming"
    /\ UNCHANGED <<fixedVars, cancelled, attempt, calls, waits, received, sent>>

\* the response stream is exhausted
GeminiStreamEnds ==
    /\ pc = "streaming"
    /\ IF cancelled
       THEN /\ UNCHANGED received
            /\ GeminiCatch(0, "Invalid state", "enqueue")
       ELSE /\ events' = Append(events, EndEvent(TRUE, ""))
            /\ outcomes' = Append(outcomes, Outcome("delivery", "success"))
            /\ pc' = "closed"
            /\ UNCHANGED <<fixedVars, cancelled, attempt, calls, waits, received,
                           sent>>

\* the response stream throws while being iterated
GeminiStreamThrows(status, message) ==
    /\ pc = "streaming"
    /\ UNCHANGED received
    /\ GeminiCatch(status, message, "delivery")

\* the backoff timer fires: attempt++, continue, loop test, next provider call
BackoffElapses ==
    /\ pc = "backoff"
    /\ attempt' = attempt + 1
    /\ IF LoopCondition(attempt + 1)
       THEN /\ calls' = calls + 1
            /\ sent' = Append(sent, CallParams(branch, command, prompt))
            /\ pc' = "awaitCall"
       ELSE /\ pc' = "exited"
            /\ UNCHANGED <<calls, sent>>
    /\ UNCHANGED <<fixedVars, cancelled, events, waits, outcomes, received>>

\* catch block of streamGitHubModels; on a cancelled stream the enqueue of the
\* end event throws out of the catch block
GitHubCatch(phase) ==
    /\ outcomes' = Append(outcomes, Outcome(phase, "exception"))
    /\ IF GitHubCatchShouldRetry(attempt)
       THEN /\ waits' = Append(waits, Wait(BackoffDelay(attempt), Len(events)))
            /\ pc' = "backoff"
            /\ UNCHANGED events
       ELSE IF cancelled
       THEN /\ pc' = "errored"
            /\ UNCHANGED <<events, waits>>
       ELSE /\ events' = Append(events, EndEvent(FALSE, "GitHub Models stream failed"))
            /\ pc' = "closed"
            /\ UNCHANGED waits
    /\ UNCHANGED <<fixedVars, cancelled, attempt, calls, received, sent>>

\* client.path('/chat/completions').post rejects (network failure)
GitHubCallThrows ==
    /\ pc = "awaitCall" /\ branch = "github"
    /\ GitHubCatch("call")

\* an error response: isUnexpected(response)
GitHubUnexpected(status, message) ==
    /\ pc = "awaitCall" /\ branch = "github"
    /\ IF GitHubShouldRetry(status, attempt)
       THEN /\ outcomes' = Append(outcomes, Outcome("call", GitHubKind(status)))
            /\ waits' = Append(waits, Wait(BackoffDelay(attempt), Len(events)))
            /\ pc' = "backoff"
            /\ UNCHANGED <<fixedVars, cancelled, events, attempt, calls, received,
                           sent>>
       ELSE IF cancelled
       THEN GitHubCatch("enqueue")
       ELSE /\ outcomes' = Append(outcomes, Outcome("call", GitHubKind(status)))
            /\ events' = Append(events,
                    EndEvent(FALSE, OrElse(message, ApiErrorText(status))))
            /\ pc' = "closed"
            /\ UNCHANGED <<fixedVars, cancelled, waits, attempt, calls, received,
                           sent>>

\* a 200 response whose body has no choices[0].message: the read throws
GitHubMalformed ==
    /\ pc = "awaitCall" /\ branch = "github"
    /\ GitHubCatch("decode")

\* a 200 response with a complete answer (content null reads as '')
GitHubCompletes(content) ==
    /\ pc = "awaitCall" /\ branch = "github"
    /\ IF cancelled
       THEN GitHubCatch("enqueue")
       ELSE /\ received' = Append(received, content)
            /\ events' = events \o DataEvents(Chunks(content))
                                \o <<EndEvent(TRUE, "")>>
            /\ outcomes' = Append(outcomes, Outcome("delivery", "success"))
            /\ pc' = "closed"
            /\ UNCHANGED <<fixedVars, cancelled, attempt, calls, waits, sent>>

\* the consumer cancels the response stream (the caller disconnects); the
\* stream has no cancel() callback and start() is given no abort signal
Cancel ==
    /\ pc \in {"awaitCall", "streaming", "backoff"}
    /\ ~cancelled
    /\ cancelled' = TRUE
    /\ UNCHANGED <<fixedVars, pc, attempt, events, calls, waits, outcomes,
                   received, sent>>

\* what the provider or the timer does next
ProviderStep ==
    \/ GeminiCallResolves
    \/ \E status \in GeminiStatuses, message \in Messages :
            GeminiCallThrows(status, message)
    \/ \E text \in Fragments : GeminiChunk(text)
    \/ GeminiStreamEnds
    \/ \E status \in GeminiStatuses, message \in Messages :
            GeminiStreamThrows(status, message)
    \/ BackoffElapses
    \/ GitHubCallThrows
    \/ \E status \in GitHubStatuses, message \in Messages :
            GitHubUnexpected(status, message)
    \/ GitHubMalformed
    \/ \E content \in Contents : GitHubCompletes(content)

Request ==
    /\ pc = "idle"
    /\ \E cookie \in Cookies, now \in Times, body \in Bodies : POST(cookie, now, body)

Next ==
    \/ Request
    \/ ProviderStep

Spec == Init /\ [][Next]_vars

\* every provider call, every stream iteration and every backoff timer
\* eventually returns
SpecLive == Init /\ [][Next]_vars /\ WF_vars(ProviderStep)

\* the relay with a consumer that may disconnect
NextCancel ==
    \/ Request
    \/ ProviderStep
    \/ Cancel
SpecCancel == Init /\ [][NextCancel]_vars


\* ------------------------------------------------- POST /api/copilot/execute
\* Math.ceil(ms / 1000)
CeilSeconds(ms) == (ms + 999) \div 1000

\* a limit test that admits one request more
LimitReached_OffByOne(entry) == entry.count > rateLimitPerMinute

\* userSession.count >= SESSION_CONFIG.rateLimitPerMinute
LimitReached(entry) == entry.count >= rateLimitPerMinute

\* !userSession || now > userSession.resetAt
WindowOver(entry, now) == ~entry.present \/ now > entry.resetAt

\* checkRateLimit(userId): the entry it leaves and the result it returns
checkRateLimit(entry, now) ==
    IF WindowOver(entry, now)
    THEN [entry |-> [present |-> TRUE, count |-> 1, resetAt |-> now + rateWindowMs],
          result |-> [allowed |-> TRUE, remaining |-> rateLimitPerMinute - 1,
                      resetIn |-> 60]]
    ELSE IF LimitReached(entry)
    THEN [entry |-> entry,
          result |-> [allowed |-> FALSE, remaining |-> 0,
                      resetIn |-> CeilSeconds(entry.resetAt - now)]]
    ELSE [entry |-> [entry EXCEPT !.count = entry.count + 1],
          result |-> [allowed |-> TRUE,
                      remaining |-> rateLimitPerMinute - (entry.count + 1),
                      resetIn |-> CeilSeconds(entry.resetAt - now)]]

RequestCap(user) == IF user = "u1" THEN MaxRequests ELSE MaxOtherRequests

\* POST of the execute route for a caller with a valid session
ExecutePOST(user, body) ==
    /\ Len(admittedAt[user]) < RequestCap(user)
    /\ rateUser' = user
    /\ LET r == checkRateLimit(sessionCommands[user], clock) IN
        /\ sessionCommands' = [sessionCommands EXCEPT ![user] = r.entry]
        /\ rateResult' = r.result
        /\ IF ~r.result.allowed
           THEN /\ executeStatus' = 429
                /\ UNCHANGED admittedAt
           ELSE /\ admittedAt' = [admittedAt EXCEPT ![user] = Append(@, clock)]
                /\ executeStatus' =
                        IF body.command = "" \/ ~HasCommandEntry(body.command)
                        THEN 400
                        ELSE IF body.input = << >> THEN 400
                        ELSE 200
    /\ UNCHANGED <<beyondRate, clock, ticks>>

\* time passes between two requests
Tick(ms) ==
    /\ ticks < MaxTicks
    /\ ticks' = ticks + 1
    /\ clock' = clock + ms
    /\ UNCHANGED <<beyondRate, sessionCommands, admittedAt, rateResult,
                   executeStatus, rateUser>>

NextRate ==
    \/ \E user \in Users, body \in ExecuteBodies : ExecutePOST(user, body)
    \/ \E ms \in TickSteps : Tick(ms)

InitRate == Init /\ geminiApiKey = "" /\ githubApiKey = ""
SpecRate == InitRate /\ [][NextRate]_vars

\* ---------------------------------------------------------- prompt assembly
\* POST /api/copilot/stream builds the prompt of an accepted request
StreamRender(cmd, input, context) ==
    /\ renderRoute = "none"
    /\ renderRoute' = "stream"
    /\ renderRequest' = [command |-> cmd, input |-> input, context |-> context]
    /\ renderPrompt' =
            [built |-> TRUE, input |-> input, error |-> context.error,
             rendered |-> RenderTemplate(cmd, input, context.error),
             full |-> BuildPrompt(cmd, input, context)]
    /\ UNCHANGED beyondRender

\* POST /api/copilot/execute builds the prompt of an admitted request, after
\* its input check
ExecuteRender(cmd, input, context) ==
    /\ renderRoute = "none"
    /\ renderRoute' = "execute"
    /\ renderRequest' = [command |-> cmd, input |-> input, context |-> context]
    /\ renderPrompt' =
            IF input = << >>
            THEN NoRenderPrompt
            ELSE LET sanitizedInput == sanitizeInput(input)
                     text == RenderTemplate(cmd, sanitizedInput, context.error)
                 IN [built |-> TRUE, input |-> sanitizedInput,
                     error |-> context.error, rendered |-> text, full |-> text]
    /\ UNCHANGED beyondRender

NextRender ==
    \/ /\ renderRoute = "none"
       /\ \E cmd \in COPILOT_COMMANDS, input \in RenderInputs,
             context \in RenderContexts : StreamRender(cmd, input, context)
    \/ /\ renderRoute = "none"
       /\ \E cmd \in COPILOT_COMMANDS, input \in RenderInputs,
             context \in RenderContexts : ExecuteRender(cmd, input, context)

SpecRender == InitRate /\ [][NextRender]_vars

\* ------------------------------------------- two concurrent relay invocations
\* one attempt counter shared by all invocations
AttemptCell_Shared(r) == 1

\* let attempt = 0 inside start(controller): every invocation has its own
AttemptCell(r) == r

\* the answer the provider gives to a call of invocation r
AnswerTo(r) == <<r>>

\* the retry test of the branch for a 429
PairShouldRetry(br, att) ==
    IF br = "gemini" THEN GeminiShouldRetry(429, att) ELSE GitHubShouldRetry("429", att)

\* a request arrives: the stream is built, start is enqueued, the first
\* provider call is made
PairOpen(r, br, cmd) ==
    /\ invocations[r].pc = "idle"
    /\ invocations' = [invocations EXCEPT ![r] =
            [pc |-> "awaitCall", branch |-> br, command |-> cmd,
             events |-> <<StartEvent(cmd)>>, calls |-> 1, waits |-> << >>,
             outcomes |-> << >>]]
    /\ attempts' = [attempts EXCEPT ![AttemptCell(r)] = 0]
    /\ UNCHANGED beyondPair

\* the provider answers 429: to the call (either branch) or while the Gemini
\* stream is iterated
PairRateLimited(r) ==
    LET inv == invocations[r]
        att == attempts[AttemptCell(r)]
        phase == IF inv.pc = "awaitCall" THEN "call" ELSE "delivery"
    IN /\ \/ inv.pc = "awaitCall"
          \/ inv.pc = "streaming" /\ inv.branch = "gemini"
       /\ invocations' = [invocations EXCEPT ![r] =
            IF PairShouldRetry(inv.branch, att)
            THEN [inv EXCEPT !.pc = "backoff",
                             !.waits = Append(@, Wait(BackoffDelay(att), Len(inv.events))),
                             !.outcomes = Append(@, Outcome(phase, "rateLimit"))]
            ELSE [inv EXCEPT !.pc = "closed",
                             !.events = Append(@, EndEvent(FALSE, "provider message")),
                             !.outcomes = Append(@, Outcome(phase, "rateLimit"))]]
       /\ UNCHANGED <<attempts, beyondPair>>

\* the provider call fails with status 500
PairFails(r) ==
    LET inv == invocations[r] IN
       /\ inv.pc = "awaitCall"
       /\ invocations' = [invocations EXCEPT ![r] =
            [inv EXCEPT !.pc = "closed",
                        !.events = Append(@, EndEvent(FALSE, "provider message")),
                        !.outcomes = Append(@, Outcome("call", "error"))]]
       /\ UNCHANGED <<attempts, beyondPair>>

\* the provider call returns: a token stream (Gemini) or a complete answer
\* (GitHub Models), which is chunked and ended at once
PairResolves(r) ==
    LET inv == invocations[r] IN
       /\ inv.pc = "awaitCall"
       /\ invocations' = [invocations EXCEPT ![r] =
            IF inv.branch = "gemini"
            THEN [inv EXCEPT !.pc = "streaming"]
            ELSE [inv EXCEPT !.pc = "closed",
                             !.events = @ \o DataEvents(Chunks(AnswerTo(r)))
                                          \o <<EndEvent(TRUE, "")>>,
                             !.outcomes = Append(@, Outcome("delivery", "success"))]]
       /\ UNCHANGED <<attempts, beyondPair>>

\* one chunk of the Gemini stream arrives
PairChunk(r) ==
    LET inv == invocations[r] IN
       /\ inv.pc = "streaming"
       /\ Cardinality({i \in 1..Len(inv.events) : inv.events[i].type = "data"})
            < MaxPairChunks
       /\ invocations' = [invocations EXCEPT ![r] =
            [inv EXCEPT !.events = Append(@, DataEvent(AnswerTo(r)))]]
       /\ UNCHANGED <<attempts, beyondPair>>

\* the Gemini stream is exhausted
PairStreamEnds(r) ==
    LET inv == invocations[r] IN
       /\ inv.pc = "streaming"
       /\ invocations' = [invocations EXCEPT ![r] =
            [inv EXCEPT !.pc = "closed",
                        !.events = Append(@, EndEvent(TRUE, "")),
                        !.outcomes = Append(@, Outcome("delivery", "success"))]]
       /\ UNCHANGED <<attempts, beyondPair>>

\* the backoff timer of invocation r fires: attempt++, continue, next call
PairBackoffElapses(r) ==
    LET inv == invocations[r]
        att == attempts[AttemptCell(r)] + 1
    IN /\ inv.pc = "backoff"
       /\ attempts' = [attempts EXCEPT ![AttemptCell(r)] = att]
       /\ invocations' = [invocations EXCEPT ![r] =
            IF LoopCondition(att)
            THEN [inv EXCEPT !.pc = "awaitCall", !.calls = @ + 1]
            ELSE [inv EXCEPT !.pc = "exited"]]
       /\ UNCHANGED beyondPair

\* the steps of invocation r after its request has arrived
PairStep(r) ==
    \/ PairRateLimited(r)
    \/ PairFails(r)
    \/ PairResolves(r)
    \/ PairChunk(r)
    \/ PairStreamEnds(r)
    \/ PairBackoffElapses(r)

\* the command of the request that invocation r serves
CommandOf(r) == IF r = 1 THEN "explain" ELSE "fix"

PairRequest ==
    \E r \in Invocations, br \in {"gemini", "github"} : PairOpen(r, br, CommandOf(r))

NextPair ==
    \/ PairRequest
    \/ \E r \in Invocations : PairStep(r)

\* the provider calls and timers of invocation 2 eventually return; nothing
\* is assumed of invocation 1
SpecPair == InitRate /\ [][NextPair]_vars /\ WF_vars(PairStep(2))

\* ------------------------------------------------------------ activity store
\* generateId(): an id no earlier call has returned
generateId(counter) == counter + 1

\* a cut that keeps the oldest items
KeepNewest_KeepOldest(items) ==
    SubSeq(items, Len(items) - Min(Len(items), activityLimit) + 1, Len(items))

\* .slice(0, 50)
KeepNewest(items) == SubSeq(items, 1, Min(Len(items), activityLimit))

\* addActivity(activity): the new item gets an id and goes to the front
addActivity ==
    /\ activityIds < MaxActivityAdds
    /\ activityIds' = generateId(activityIds)
    /\ activities' = KeepNewest(<<generateId(activityIds)>> \o activities)
    /\ added' = <<generateId(activityIds)>> \o added
    /\ UNCHANGED beyondActivity

\* clearActivities()
clearActivities ==
    /\ activities' = << >>
    /\ added' = << >>
    /\ UNCHANGED <<activityIds, beyondActivity>>

NextActivity ==
    \/ addActivity
    \/ clearActivities

SpecActivity == InitRate /\ [][NextActivity]_vars

\* ------------------------------------------------------------- command store
\* an apply that marks every diff
applyChangeTo_All(diffs, diffId) ==
    [i \in 1..Len(diffs) |-> [diffs[i] EXCEPT !.applied = TRUE]]

\* applyChange(diffId): the new diffChanges
applyChangeTo(diffs, diffId) ==
    [i \in 1..Len(diffs) |->
        IF diffs[i].id = diffId THEN [diffs[i] EXCEPT !.applied = TRUE] ELSE diffs[i]]

\* rejectChange(diffId): the new diffChanges
rejectChangeFrom(diffs, diffId) == SelectSeq(diffs, LAMBDA diff : diff.id # diffId)

\* undoChange(diffId): the new diffChanges
undoChangeTo(diffs, diffId) ==
    [i \in 1..Len(diffs) |->
        IF diffs[i].id = diffId THEN [diffs[i] EXCEPT !.applied = FALSE] ELSE diffs[i]]

\* startExecution(commandId, commandName, input)
startExecution ==
    /\ idCounter < MaxStoreIds
    /\ Len(outputLines) < MaxOutputLines
    /\ idCounter' = generateId(idCounter)
    /\ executions' =
            <<[id |-> generateId(idCounter), status |-> "running", output |-> 0]>>
                \o executions
    /\ currentExecution' = generateId(idCounter)
    /\ isExecuting' = TRUE
    /\ outputLines' = Append(outputLines, "command")
    /\ UNCHANGED <<diffChanges, beyondCommand>>

\* appendOutput(executionId, content, type)
appendOutput(executionId, type) ==
    /\ Len(outputLines) < MaxOutputLines
    /\ \A i \in 1..Len(executions) : executions[i].output < MaxOutputLines
    /\ outputLines' = Append(outputLines, type)
    /\ executions' = [i \in 1..Len(executions) |->
            IF executions[i].id = executionId
            THEN [executions[i] EXCEPT !.output = @ + 1]
            ELSE executions[i]]
    /\ UNCHANGED <<currentExecution, isExecuting, diffChanges, idCounter,
                   beyondCommand>>

\* completeExecution(executionId, status)
completeExecution(executionId, status) ==
    /\ executions' = [i \in 1..Len(executions) |->
            IF executions[i].id = executionId
            THEN [executions[i] EXCEPT !.status = status]
            ELSE executions[i]]
    /\ currentExecution' = 0
    /\ isExecuting' = FALSE
    /\ UNCHANGED <<outputLines, diffChanges, idCounter, beyondCommand>>

\* addDiffChange(change), called with applied: false
addDiffChange ==
    /\ idCounter < MaxStoreIds
    /\ idCounter' = generateId(idCounter)
    /\ diffChanges' = <<[id |-> generateId(idCounter), applied |-> FALSE]>> \o diffChanges
    /\ UNCHANGED <<executions, currentExecution, isExecuting, outputLines,
                   beyondCommand>>

applyChange(diffId) ==
    /\ diffChanges' = applyChangeTo(diffChanges, diffId)
    /\ UNCHANGED <<executions, currentExecution, isExecuting, outputLines, idCounter,
                   beyondCommand>>

rejectChange(diffId) ==
    /\ diffChanges' = rejectChangeFrom(diffChanges, diffId)
    /\ UNCHANGED <<executions, currentExecution, isExecuting, outputLines, idCounter,
                   beyondCommand>>

undoChange(diffId) ==
    /\ diffChanges' = undoChangeTo(diffChanges, diffId)
    /\ UNCHANGED <<executions, currentExecution, isExecuting, outputLines, idCounter,
                   beyondCommand>>

clearOutput ==
    /\ outputLines' = << >>
    /\ UNCHANGED <<executions, currentExecution, isExecuting, diffChanges, idCounter,
                   beyondCommand>>

clearDiffs ==
    /\ diffChanges' = << >>
    /\ UNCHANGED <<executions, currentExecution, isExecuting, outputLines, idCounter,
                   beyondCommand>>

\* ids a caller may pass: those handed out so far, and 0 for an unknown one
KnownIds == 0..idCounter

NextCommand ==
    \/ startExecution
    \/ \E id \in KnownIds : appendOutput(id, "info")
    \/ \E id \in KnownIds, status \in {"success", "error"} : completeExecution(id, status)
    \/ addDiffChange
    \/ \E id \in KnownIds : applyChange(id)
    \/ \E id \in KnownIds : rejectChange(id)
    \/ \E id \in KnownIds : undoChange(id)
    \/ clearOutput
    \/ clearDiffs

SpecCommand == InitRate /\ [][NextCommand]_vars

\* ------------------------------------------------------ claim vocabulary
IsEnd(e) == e.type = "end"
IsData(e) == e.type = "data"
EndEmitted == events # << >> /\ IsEnd(events[Len(events)])
Finished == pc \in {"closed", "exited"}
DataCount == Cardinality({i \in 1..Len(events) : IsData(events[i])})
EndCount == Cardinality({i \in 1..Len(events) : IsEnd(events[i])})
RateLimitAtCall == Outcome("call", "rateLimit")
Succeeded == outcomes # << >> /\ outcomes[Len(outcomes)].kind = "success"
\* the provider rate-limits the first k calls and then answers
RateLimitedThenSuccess(k) ==
    /\ Len(outcomes) = k + 1
    /\ \A i \in 1..k : outcomes[i] = RateLimitAtCall
    /\ outcomes[k + 1].kind = "success"
\* the provider rate-limits every call
RateLimitedThroughout ==
    /\ outcomes # << >>
    /\ \A i \in 1..Len(outcomes) : outcomes[i] = RateLimitAtCall
ExpectedDelays == <<2000, 4000, 8000>>
RECURSIVE Concat(_)
Concat(texts) == IF texts = << >> THEN << >> ELSE Head(texts) \o Concat(Tail(texts))
RECURSIVE DataContents(_)
DataContents(evs) ==
    IF evs = << >> THEN << >>
    ELSE IF IsData(Head(evs)) THEN <<Head(evs).content>> \o DataContents(Tail(evs))
    ELSE DataContents(Tail(evs))

\* ------------------------------------------------------------------ claims

\* C1: on every opened stream the events are, in order, exactly one start,
\* then zero or more data, then exactly one end: at any moment the events are
\* a prefix of that shape, and a finished invocation has emitted its end.
C1_StartDataEnd ==
    /\ httpStatus = 200 =>
        /\ Len(events) >= 1
        /\ events[1].type = "start"
        /\ \A i \in 2..Len(events) :
            /\ events[i].type \in {"data", "end"}
            /\ IsEnd(events[i]) => i = Len(events)
    /\ httpStatus # 200 => events = << >>
    /\ Finished => EndEmitted /\ EndCount = 1
C1_Witness ==
    /\ pc = "closed" /\ EndCount = 1 /\ DataCount >= 2 /\ Len(waits) >= 1
    /\ branch = "gemini"

\* C2: once end is on the stream the stream is closed, and no later step
\* emits an event, calls the provider, waits, or moves the attempt loop.
C2_NothingAfterEnd ==
    /\ [](EndEmitted => pc = "closed")
    /\ [][EndEmitted => UNCHANGED <<events, calls, waits, attempt, pc>>]_vars
C2_Witness == EndEmitted /\ pc = "closed" /\ DataCount >= 1 /\ branch = "github"

\* C3: one relay invocation makes at most maxRetries + 1 provider calls and
\* its attempt counter never exceeds maxRetries.
C3_AttemptsBounded ==
    /\ attempt <= maxRetries
    /\ calls <= maxRetries + 1
    /\ calls <= 4
    /\ Len(outcomes) <= calls
C3_Witness == calls = maxRetries + 1 /\ attempt = maxRetries /\ pc = "awaitCall"

\* C4: when the provider answers the first k calls (0 <= k <= maxRetries)
\* with a rate-limit signal and the next one successfully, the relay has slept
\* exactly the k delays 2000, 4000, 8000 ms (their first k) in that order, all
\* of them before any data event, has made k + 1 calls, and its only end
\* event reports success.
C4_BackoffThenSuccess ==
    \A k \in 0..maxRetries :
        (pc = "closed" /\ RateLimitedThenSuccess(k)) =>
            /\ Len(waits) = k
            /\ \A i \in 1..k : waits[i].delayMs = ExpectedDelays[i]
            /\ \A i \in 1..k : waits[i].after = 1
            /\ calls = k + 1
            /\ EndCount = 1
            /\ events[Len(events)] = EndEvent(TRUE, "")
C4_Witness ==
    /\ pc = "closed" /\ RateLimitedThenSuccess(maxRetries)
    /\ DataCount >= 1 /\ Len(waits) = 3

\* C5: when the provider answers every call with a rate-limit signal, the
\* relay makes exactly maxRetries + 1 calls, sleeps exactly maxRetries times,
\* emits no data event and ends with end{success:false}.
C5_RetriesExhausted ==
    (pc = "closed" /\ RateLimitedThroughout) =>
        /\ calls = maxRetries + 1
        /\ Len(outcomes) = maxRetries + 1
        /\ Len(waits) = maxRetries
        /\ DataCount = 0
        /\ Len(events) = 2
        /\ IsEnd(events[2]) /\ ~events[2].success
C5_Witness ==
    /\ pc = "closed" /\ RateLimitedThroughout /\ branch = "github"
    /\ calls = 4 /\ ~events[Len(events)].success

\* C6: a provider call that fails for a reason other than a rate-limit signal
\* is the last one: no backoff wait and no further call follow it, and the
\* stream ends with end{success:false}.
C6_OtherFailureIsFinal ==
    \A i \in 1..Len(outcomes) :
        outcomes[i].kind \in {"auth", "error", "exception"} =>
            /\ i = Len(outcomes)
            /\ calls = i
            /\ Len(waits) = i - 1
            /\ pc = "closed"
            /\ EndEmitted /\ ~events[Len(events)].success

\* C7: after a data event is on the stream no further provider attempt is
\* started: every backoff wait begins while the stream carries no data event.
C7_RetriesPrecedeData ==
    \A i \in 1..Len(waits) :
        \A j \in 1..waits[i].after : ~IsData(events[j])

\* C8: a provider authentication failure (401 / 403) is the last attempt: the
\* relay emits end{success:false} after it, with no wait and no further call.
C8_AuthFailureIsFatal ==
    \A i \in 1..Len(outcomes) :
        outcomes[i].kind = "auth" =>
            /\ i = Len(outcomes)
            /\ calls = i
            /\ Len(waits) = i - 1
            /\ pc = "closed"
            /\ EndCount = 1
            /\ EndEmitted /\ ~events[Len(events)].success
C8_Witness ==
    /\ Len(outcomes) = 2 /\ outcomes[1] = RateLimitAtCall
    /\ outcomes[2].kind = "auth" /\ pc = "closed"

\* C9: for a complete answer S of the provider, the contents of the data
\* events, concatenated in emission order, are exactly S.
C9_ChunkFidelity ==
    (pc = "closed" /\ branch = "github" /\ Succeeded) =>
        Concat(DataContents(events)) = received[Len(received)]
C9_Witness ==
    /\ pc = "closed" /\ branch = "github" /\ Succeeded
    /\ Len(received[Len(received)]) = 41 /\ DataCount = 3

\* C10: a request with no session cookie, an unparsable cookie or an expired
\* session is answered 401 at once: no stream, no start event, no provider
\* call.
C10_Unauthenticated ==
    authCase \in {"noCookie", "unparsable", "expired"} =>
        /\ httpStatus = 401
        /\ pc = "responded"
        /\ events = << >>
        /\ calls = 0
        /\ branch = "none"
C10_Witness == authCase = "expired" /\ httpStatus = 401 /\ pc = "responded"

\* the request passed the session check
Authenticated == authCase \in {"valid", "noExpiresAt"}
NoKeyConfigured == geminiApiKey = "" /\ githubApiKey = ""
NoStream == events = << >> /\ calls = 0 /\ sent = << >> /\ branch = "none"
KeyOf(id) ==
    IF id = "gemini" THEN geminiApiKey
    ELSE IF id = "github" THEN githubApiKey
    ELSE ""
DefaultModelOf(id) ==
    IF id = "gemini" THEN "gemini-3-flash-preview"
    ELSE IF id = "github" THEN "mistral-ai/Codestral-2501"
    ELSE ""
ExpectedProvider(requested) ==
    IF requested \in {"gemini", "github"} /\ KeyOf(requested) # "" THEN requested
    ELSE IF geminiApiKey # "" THEN "gemini"
    ELSE IF githubApiKey # "" THEN "github"
    ELSE "none"

\* C11: with no provider key configured every authenticated request is
\* answered at once with the configuration error (status 500), whatever
\* provider it asks for: no stream is opened and no provider call is made.
C11_NoProviderConfigured ==
    (pc # "idle" /\ Authenticated /\ NoKeyConfigured) =>
        /\ pc = "responded"
        /\ httpStatus = 500
        /\ NoStream
        /\ rejected.bodyOk => errorBody = "No AI provider configured"
C11_Witness ==
    /\ pc = "responded" /\ Authenticated /\ NoKeyConfigured
    /\ rejected.bodyOk /\ rejected.provider = "github" /\ rejected.command = "fix"
    /\ errorBody = "No AI provider configured"

\* C12: an authenticated request whose command is missing or is not one of
\* the six commands is answered 400 'Invalid command', with no stream and no
\* provider call.
C12_InvalidCommand ==
    (pc # "idle" /\ Authenticated /\ rejected.bodyOk
        /\ rejected.command \notin {"explain", "generate", "fix", "refactor", "test", "docs"}) =>
        /\ pc = "responded"
        /\ httpStatus = 400
        /\ errorBody = "Invalid command"
        /\ NoStream

\* C13: an authenticated request with a valid command and no input is
\* rejected before the stream starts: a stream is only opened for a request
\* that carries input.
C13_MissingInputRejected ==
    httpStatus = 200 => accepted.input # << >>

\* C16: of any one user at most 20 requests are admitted within any
\* one-minute span; a request over the limit is answered 429.
C16_RateLimit ==
    /\ \A u \in Users :
        \A i \in 1..Len(admittedAt[u]) :
            Cardinality({j \in i..Len(admittedAt[u]) :
                            admittedAt[u][j] - admittedAt[u][i] < 60000}) <= 20
    /\ (executeStatus # 0 /\ ~rateResult.allowed) => executeStatus = 429

\* C17: every provider call, first attempt and retries alike, is sent
\* temperature 0.2 for 'fix' and the provider default (0.7 gemini, 0.4
\* github) for every other command.
C17_Temperature ==
    /\ Len(sent) = calls
    /\ \A i \in 1..Len(sent) :
        sent[i].temperature =
            IF command = "fix" THEN 2 ELSE IF branch = "gemini" THEN 7 ELSE 4
C17_Witness ==
    /\ Len(sent) >= 2 /\ command = "fix" /\ branch = "gemini"
    /\ sent[2].temperature = 2

\* C18: the prompt sent to the provider is determined by command, input,
\* context and the resolved provider alone: every call of a request, retries
\* included, carries the system and user text assembled from them, so two
\* requests that agree on them send identical prompts.
C18_PromptDeterministic ==
    \A i \in 1..Len(sent) :
        /\ sent[i] = sent[1]
        /\ branch = "gemini" =>
            sent[i].contents =
                buildSystemPrompt(accepted.command, accepted.context)
                \o <<"\n\n">>
                \o BuildPrompt(accepted.command, accepted.input, accepted.context)
        /\ branch = "github" =>
            sent[i].messages =
                <<buildSystemPrompt(accepted.command, accepted.context),
                  BuildPrompt(accepted.command, accepted.input, accepted.context)>>
C18_Witness ==
    /\ Len(sent) = 4 /\ branch = "github" /\ accepted.context # NoContext
    /\ accepted.input # << >>

\* C19: a session cookie is accepted exactly when it parses and carries an
\* expiresAt with now <= expiresAt; a cookie without a usable expiresAt is
\* rejected.
C19_SessionValidity ==
    pc # "idle" => ((httpStatus # 401) <=> authCase = "valid")

\* C20: getAIConfig returns the requested provider when it has a key,
\* otherwise Gemini if it has a key, otherwise GitHub if it has a key,
\* otherwise none; the returned key is the returned provider's key and is
\* non-empty exactly when a provider is returned, the model is that
\* provider's default model, and a stream runs on the resolved branch only.
C20_ProviderResolution ==
    /\ \A requested \in RequestProviders :
        LET r == getAIConfig(requested) IN
            /\ r.provider = ExpectedProvider(requested)
            /\ r.apiKey = KeyOf(r.provider)
            /\ r.model = DefaultModelOf(r.provider)
            /\ (r.apiKey # "") <=> (r.provider # "none")
    /\ httpStatus = 200 => branch \in {"gemini", "github"} /\ KeyOf(branch) # ""
    /\ (httpStatus = 200 /\ githubApiKey = "") => branch = "gemini"
C20_Witness ==
    /\ httpStatus = 200 /\ branch = "github" /\ geminiApiKey # ""
    /\ getAIConfig("github").provider = "github"
    /\ getAIConfig("other").provider = "gemini"

\* C14: once a stream is open the relay eventually emits end and closes the
\* stream; the attempt loop never exits, and the stream is never closed,
\* without an end.
C14_EventuallyEnds ==
    /\ (httpStatus = 200) ~> (EndEmitted /\ pc = "closed")
    /\ [](pc \notin {"exited", "errored"})
    /\ [](pc = "closed" => EndEmitted)
C14_Witness == pc = "closed" /\ EndEmitted /\ Len(waits) = 3 /\ calls = 4

\* C15: after the caller has disconnected the relay starts no new provider
\* call and no new backoff wait.
C15_CancelAbortsRetries ==
    [][cancelled => (calls' = calls /\ waits' = waits)]_vars

\* the fragments of a token stream that carry text
NonEmptyFragments(fragments) == SelectSeq(fragments, LAMBDA f : f # << >>)

\* C21: on a stream fed by a live token stream the contents of the data
\* events are exactly the non-empty fragments received from the provider, in
\* the order received; an empty fragment produces no event.
C21_FragmentOrder ==
    branch = "gemini" => DataContents(events) = NonEmptyFragments(received)
C21_Witness ==
    /\ branch = "gemini" /\ pc = "closed" /\ Succeeded
    /\ received = <<<<2, 3>>, <<1>>>>
    /\ DataCount = 2

\* C25: a complete (non-streamed) answer S of n characters is sent as
\* exactly ceil(n / 20) data events, the i-th carrying the characters
\* 20(i-1)+1 .. min(20i, n) of S: every one non-empty, every one but the last
\* exactly 20 long, in increasing offset order, followed by end{success:true}.
C25_SyntheticChunks ==
    (pc = "closed" /\ branch = "github" /\ Succeeded) =>
        LET S == received[Len(received)]
            n == Len(S)
            d == DataContents(events)
        IN /\ Len(d) = (n + 19) \div 20
           /\ \A i \in 1..Len(d) :
                /\ d[i] = SubSeq(S, 20 * (i - 1) + 1, Min(20 * i, n))
                /\ Len(d[i]) \in 1..20
                /\ i < Len(d) => Len(d[i]) = 20
           /\ Len(events) = Len(d) + 2
           /\ \A i \in 1..Len(d) : IsData(events[i + 1])
           /\ events[Len(events)] = EndEvent(TRUE, "")
C25_Witness ==
    /\ pc = "closed" /\ branch = "github" /\ Succeeded
    /\ Len(received[Len(received)]) = 40 /\ DataCount = 2
    /\ Len(events[3].content) = 20

\* C26: every stored per-user count is between 1 and 20; a denied call leaves
\* the caller's count and resetAt unchanged; a call for one user never changes
\* another user's entry; the remaining value reported on an admitted call is
\* 20 minus the caller's count and is never negative.
C26_LimiterState ==
    /\ [](\A u \in Users :
            sessionCommands[u].present => sessionCommands[u].count \in 1..20)
    /\ []((rateUser # "" /\ rateResult.allowed) =>
            /\ rateResult.remaining = 20 - sessionCommands[rateUser].count
            /\ rateResult.remaining >= 0)
    /\ [][(\A u \in Users :
                (ticks' # ticks \/ u # rateUser') =>
                    sessionCommands'[u] = sessionCommands[u])
           /\ ((ticks' = ticks /\ ~rateResult'.allowed) =>
                    sessionCommands' = sessionCommands)]_vars
C26_Witness ==
    /\ executeStatus = 429 /\ rateUser = "u1" /\ ~rateResult.allowed
    /\ sessionCommands["u1"].count = 20
    /\ sessionCommands["u2"].present

\* the texts in which every token differs from '<' and '>'
NoAngleBrackets(text) == \A i \in 1..Len(text) : text[i] \notin {"<", ">"}

\* C23: every user-supplied text merged into a prompt, by the execute route
\* and by the stream route (input and context.error), has had '<' and '>'
\* removed and is at most 5000 characters long.
C23_InputsSanitized ==
    renderPrompt.built =>
        /\ NoAngleBrackets(renderPrompt.input) /\ Len(renderPrompt.input) <= 5000
        /\ NoAngleBrackets(renderPrompt.error) /\ Len(renderPrompt.error) <= 5000

\* part occurs in text as a contiguous run
Occurs(text, part) ==
    \E i \in 1..(Len(text) - Len(part) + 1) :
        \A j \in 1..Len(part) : text[i + j - 1] = part[j]
\* how many times a token occurs in a text
CountOf(text, token) == Cardinality({i \in 1..Len(text) : text[i] = token})

\* C24: the block 'File: <name>' with the fenced file content is appended to
\* the relay's prompt exactly when the request carries non-empty file content
\* that the prompt rendered from the template does not already contain; it is
\* appended at most once, and the prompt is otherwise the rendered template.
C24_FileContextMerge ==
    renderRoute = "stream" =>
        LET content == renderRequest.context.fileContent
            rendered == renderPrompt.rendered
            full == renderPrompt.full
            wanted == content # << >> /\ ~Occurs(rendered, content)
        IN /\ CountOf(full, "\n\nFile: ") = IF wanted THEN 1 ELSE 0
           /\ wanted =>
                full = rendered
                        \o <<"\n\nFile: ", renderRequest.context.fileName,
                             "\n[fence]", "typescript", "\n">>
                        \o content \o <<"\n[fence]">>
           /\ ~wanted => full = rendered
C24_Witness ==
    /\ renderRoute = "stream"
    /\ renderRequest.context.fileContent = <<"let a">>
    /\ renderRequest.input = <<"x", "let a">>
    /\ renderPrompt.full = renderPrompt.rendered

\* the template with every {code} and {prompt} token replaced by input and
\* every {error} token by error
RECURSIVE Substituted(_, _, _)
Substituted(template, input, error) ==
    IF template = << >> THEN << >>
    ELSE (IF Head(template) \in {"{code}", "{prompt}"} THEN input
          ELSE IF Head(template) = "{error}" THEN error
          ELSE <<Head(template)>>)
         \o Substituted(Tail(template), input, error)

\* C30: for every command and every input, inputs containing '{code}',
\* '{prompt}' or '{error}' included, the prompt rendered by either route is
\* the command's template with its placeholder replaced by the input as
\* merged, verbatim, and context.error only at the template's own {error}.
C30_TemplateRendering ==
    renderPrompt.built =>
        renderPrompt.rendered =
            Substituted(Template(renderRequest.command), renderPrompt.input,
                        renderPrompt.error)

\* the i-th delay of a relay invocation
DelayOf(i) == IF i = 1 THEN 2000 ELSE IF i = 2 THEN 4000 ELSE 8000
\* waits that the rate-limit outcomes of an invocation account for
RateLimitCount(inv) ==
    Cardinality({i \in 1..Len(inv.outcomes) : inv.outcomes[i].kind = "rateLimit"})
\* stream, attempt counter and delays of invocation r follow from its own
\* request and its own provider outcomes
OwnStateOnly(r) ==
    LET inv == invocations[r] IN
    inv.pc # "idle" =>
        /\ inv.events[1] = StartEvent(inv.command)
        /\ \A i \in 2..Len(inv.events) :
            /\ inv.events[i].type \in {"data", "end"}
            /\ IsData(inv.events[i]) => inv.events[i].content = <<r>>
        /\ Len(inv.waits) <= 3
        /\ \A i \in 1..Len(inv.waits) : inv.waits[i].delayMs = DelayOf(i)
        /\ attempts[r] = Len(inv.waits) - (IF inv.pc = "backoff" THEN 1 ELSE 0)
        /\ inv.calls = attempts[r] + 1
        /\ inv.pc = "closed" => Len(inv.waits) = RateLimitCount(inv)
                                    - (IF Len(inv.waits) = 3
                                          /\ inv.outcomes[Len(inv.outcomes)].kind = "rateLimit"
                                       THEN 1 ELSE 0)
        /\ inv.pc # "exited"

C27_ActivityWindow ==
    /\ Len(activities) <= 50
    /\ \A i \in 1..Len(activities) : \A j \in (i + 1)..Len(activities) :
            activities[i] > activities[j]
    /\ Len(activities) = IF Len(added) < 50 THEN Len(added) ELSE 50
    /\ \A i \in 1..Len(activities) : activities[i] = added[i]
C27_Witness ==
    /\ Len(activities) = 50 /\ Len(added) = 52
    /\ activities[1] = 52 /\ activities[50] = 3

\* the list without its k-th item
Without(items, k) == SubSeq(items, 1, k - 1) \o SubSeq(items, k + 1, Len(items))
\* the positions of the diff with the given id
PositionsOf(diffs, diffId) == {i \in 1..Len(diffs) : diffs[i].id = diffId}
\* the diffs agree except for the applied flag of the diff with the given id,
\* which is as given
OnlyFlagSet(before, after, diffId, flag) ==
    /\ Len(after) = Len(before)
    /\ \A i \in 1..Len(before) :
        /\ after[i].id = before[i].id
        /\ after[i].applied = IF before[i].id = diffId THEN flag ELSE before[i].applied

\* C28: applyChange and undoChange change only the applied flag of the diff
\* with the given id (apply is idempotent; undo after apply of an unapplied
\* diff restores the list), rejectChange removes exactly that diff, and a step
\* that changes the diffs leaves their order, every other diff, executions and
\* outputLines unchanged.
C28_DiffReview ==
    /\ [](\A diffId \in KnownIds :
            LET d == diffChanges
                a == applyChangeTo(d, diffId)
                at == PositionsOf(d, diffId)
            IN /\ OnlyFlagSet(d, a, diffId, TRUE)
               /\ OnlyFlagSet(d, undoChangeTo(d, diffId), diffId, FALSE)
               /\ applyChangeTo(a, diffId) = a
               /\ (\A i \in at : ~d[i].applied) => undoChangeTo(a, diffId) = d
               /\ Cardinality(at) <= 1
               /\ \A i \in at : rejectChangeFrom(d, diffId) = Without(d, i)
               /\ at = {} => rejectChangeFrom(d, diffId) = d)
    /\ [][(diffChanges' # diffChanges /\ diffChanges' # << >>
            /\ Len(diffChanges') <= Len(diffChanges)) =>
            /\ UNCHANGED <<executions, outputLines, currentExecution, isExecuting>>
            /\ \E diffId \in KnownIds :
                \/ OnlyFlagSet(diffChanges, diffChanges', diffId, TRUE)
                \/ OnlyFlagSet(diffChanges, diffChanges', diffId, FALSE)
                \/ \E i \in PositionsOf(diffChanges, diffId) :
                        diffChanges' = Without(diffChanges, i)]_vars
C28_Witness ==
    /\ Len(diffChanges) = 2 /\ idCounter = 3
    /\ diffChanges[1].applied /\ ~diffChanges[2].applied
    /\ Len(executions) = 1 /\ outputLines # << >>

\* C29: isExecuting is true exactly when some execution has status
\* 'running', and currentExecution is non-null exactly when isExecuting.
C29_ExecutionTracking ==
    /\ isExecuting <=> \E i \in 1..Len(executions) : executions[i].status = "running"
    /\ (currentExecution # 0) <=> isExecuting

TypeOK ==
    /\ pc \in {"idle", "responded", "awaitCall", "streaming", "backoff", "closed",
              "exited", "errored"}
    /\ httpStatus \in {0, 200, 400, 401, 500}
    /\ branch \in {"none", "gemini", "github"}
    /\ attempt \in Nat
    /\ calls \in Nat
    /\ cancelled \in BOOLEAN
    /\ clock \in Nat
    /\ ticks \in 0..MaxTicks
    /\ executeStatus \in {0, 200, 400, 429}
    /\ \A u \in Users : sessionCommands[u].count \in 0..rateLimitPerMinute
    /\ rateUser \in Users \cup {""}
====
